---- MODULE Spec2Model ----
(***************************************************************************)
(* PyVLM, src/pyvlm/panel.py: the Panel aggregate.                         *)
(*                                                                         *)
(* A Panel is built from four 2D corner points and then answers four      *)
(* read-only queries: area(), span(), control_point() and                  *)
(* induced_velocity(q).  The model follows one Panel object from the call  *)
(* of its constructor through any sequence of queries, and keeps what each *)
(* call gave back to the caller.                                           *)
(*                                                                         *)
(* Numbers.  Corner coordinates are integers on a small grid, so that the  *)
(* exact comparisons of the source (!= 0, abs(b) != abs(b__)) are exact    *)
(* here too.  Values that carry a fixed fraction are kept as integers in   *)
(* that fraction's unit: an area is counted in halves (1.0 is 2 halves),   *)
(* a vortex point in eighths of a grid step.                               *)
(***************************************************************************)
EXTENDS Integers, Sequences, FiniteSets, TLC

VARIABLES
    args,       \* the four points handed to Panel(...), <<>> before the call
    self,       \* the attributes P1..P4 of the Panel object the caller holds
    returned    \* per call, the outcomes the caller observed, in call order

vars == <<args, self, returned>>

----------------------------------------------------------------------------
(* Bounds of the model *)

MaxX == 1
MaxY == 2

\* how often the caller repeats one query
MaxRepeat == 2

Point == (0..MaxX) \X (0..MaxY)

\* field point at which the caller evaluates the induced velocity
FieldPoint == {<<0, 0>>}

----------------------------------------------------------------------------
(* Outcomes of a call *)

Return(v) == [kind |-> "value", msg |-> "", val |-> v]
Raise(exc, m) == [kind |-> "error", msg |-> m, val |-> <<exc>>]

\* the object when the caller holds no Panel
NoPanel == [P1 |-> <<>>, P2 |-> <<>>, P3 |-> <<>>, P4 |-> <<>>]

Constructor == <<"init", <<>>>>

Queries == {<<"area", <<>>>>, <<"span", <<>>>>, <<"control_point", <<>>>>}
           \cup {<<"induced_velocity", q>> : q \in FieldPoint}

----------------------------------------------------------------------------
(* numpy arithmetic on 2D points *)

abs(x) == IF x < 0 THEN -x ELSE x

sub(a, b) == <<a[1] - b[1], a[2] - b[2]>>

add(a, b) == <<a[1] + b[1], a[2] + b[2]>>

scale(k, a) == <<k * a[1], k * a[2]>>

\* np.cross of two 2D vectors: the z component
cross(a, b) == a[1] * b[2] - a[2] * b[1]

----------------------------------------------------------------------------
(* geometry.area_4points: the quadrilateral split into the triangles       *)
(* (A, B, C) and (A, C, D); the result is counted in halves.               *)

area_4points(A, B, C, D) ==
    abs(cross(sub(B, A), sub(C, A)) + cross(sub(C, A), sub(D, A)))

(* vortices.vortex_position_in_panel: [P, A, B, C, D] in eighths.          *)
(* A and D at the quarter chord of the edges P1P2 and P4P3, B and C the    *)
(* trailing anchors at P2 and P3, P midway between the three-quarter-chord *)
(* points of the two edges.  A zero-length edge P1P2 is degenerate.        *)

vortex_position_in_panel(P1, P2, P3, P4) ==
    IF P1 = P2
    THEN Raise("DegenerateGeometry", "P1P2 has zero length")
    ELSE LET A == add(scale(6, P1), scale(2, P2))
             D == add(scale(6, P4), scale(2, P3))
             B == scale(8, P2)
             C == scale(8, P3)
             P == add(add(P1, scale(3, P2)), add(P4, scale(3, P3)))
         IN  Return(<<P, A, B, C, D>>)

(* vortices.v_induced_by_horseshoe_vortex: Biot-Savart over the bound      *)
(* segment A-D and the legs A-B and D-C.  A field point on the line of a   *)
(* filament has distance zero to it: Degenerate-Evaluation.  Otherwise the *)
(* velocity is a fixed function of the five points, kept as that term.     *)

v_induced_by_horseshoe_vortex(q, A, B, C, D) ==
    LET q8 == scale(8, q)
        onLine(U, V) == cross(sub(q8, U), sub(V, U)) = 0
    IN  IF onLine(A, D) \/ onLine(A, B) \/ onLine(D, C)
        THEN Raise("DegenerateEvaluation", "field point on a vortex filament")
        ELSE Return(<<q, A, B, C, D>>)

----------------------------------------------------------------------------
(* class Panel.  Each method is the pair of the object's attributes after  *)
(* the call and the call's outcome.                                        *)

NotParallel == "Panel incorrectly defined, P1P2 and P3P4 not parallel"
UnequalSpan == "Panel incorrectly defined, |P1P4| =/ |P2P3|"

Effect(s, o) == [self |-> s, out |-> o]

\* variants of the constructor: the check dropped; the other message raised
init_unchecked(P1, P2, P3, P4) ==
    Effect([P1 |-> P1, P2 |-> P2, P3 |-> P3, P4 |-> P4], Return(<<>>))

init_spanmsg(P1, P2, P3, P4) ==
    LET this == [P1 |-> P1, P2 |-> P2, P3 |-> P3, P4 |-> P4]
        P1P2 == sub(this.P2, this.P1)
        P3P4 == sub(this.P4, this.P3)
    IN  IF cross(P1P2, P3P4) # 0
        THEN Effect(NoPanel, Raise("ValueError", UnequalSpan))
        ELSE Effect(this, Return(<<>>))

init(P1, P2, P3, P4) ==
    LET this == [P1 |-> P1, P2 |-> P2, P3 |-> P3, P4 |-> P4]
        P1P2 == sub(this.P2, this.P1)
        P3P4 == sub(this.P4, this.P3)
    IN  IF cross(P1P2, P3P4) # 0
        THEN Effect(NoPanel, Raise("ValueError", NotParallel))
        ELSE Effect(this, Return(<<>>))

\* variant of area: the corners handed over in the order P1, P3, P2, P4
area_misordered(this) ==
    Effect(this, Return(<<area_4points(this.P1, this.P3, this.P2, this.P4)>>))

area(this) ==
    Effect(this, Return(<<area_4points(this.P1, this.P2, this.P3, this.P4)>>))

\* variants of span: signed comparison; signed result; x read instead of y;
\* the difference taken in place on the stored corner
span_signed_check(this) ==
    LET b == this.P3[2] - this.P2[2]
        b__ == this.P4[2] - this.P1[2]
    IN  IF b # b__
        THEN Effect(this, Raise("ValueError", UnequalSpan))
        ELSE Effect(this, Return(<<abs(b)>>))

span_signed_result(this) ==
    LET b == this.P3[2] - this.P2[2]
        b__ == this.P4[2] - this.P1[2]
    IN  IF abs(b) # abs(b__)
        THEN Effect(this, Raise("ValueError", UnequalSpan))
        ELSE Effect(this, Return(<<b>>))

span_along_x(this) ==
    LET b == this.P3[1] - this.P2[1]
        b__ == this.P4[1] - this.P1[1]
    IN  IF abs(b) # abs(b__)
        THEN Effect(this, Raise("ValueError", UnequalSpan))
        ELSE Effect(this, Return(<<abs(b)>>))

span_in_place(this) ==
    LET after == [this EXCEPT !.P3 = sub(this.P3, this.P2)]
        b == after.P3[2]
        b__ == this.P4[2] - this.P1[2]
    IN  IF abs(b) # abs(b__)
        THEN Effect(after, Raise("ValueError", UnequalSpan))
        ELSE Effect(after, Return(<<abs(b)>>))

span(this) ==
    LET b == this.P3[2] - this.P2[2]
        b__ == this.P4[2] - this.P1[2]
    IN  IF abs(b) # abs(b__)
        THEN Effect(this, Raise("ValueError", UnequalSpan))
        ELSE Effect(this, Return(<<abs(b)>>))

vortex_position(this) ==
    vortex_position_in_panel(this.P1, this.P2, this.P3, this.P4)

control_point(this) ==
    LET points_of_the_vortex == vortex_position(this)
    IN  IF points_of_the_vortex.kind = "error"
        THEN Effect(this, points_of_the_vortex)
        ELSE Effect(this, Return(points_of_the_vortex.val[1]))

induced_velocity(this, control_point_pos) ==
    LET points_vortex == vortex_position(this)
    IN  IF points_vortex.kind = "error"
        THEN Effect(this, points_vortex)
        ELSE Effect(this,
                    v_induced_by_horseshoe_vortex(control_point_pos,
                                                  points_vortex.val[2],
                                                  points_vortex.val[3],
                                                  points_vortex.val[4],
                                                  points_vortex.val[5]))

----------------------------------------------------------------------------
(* The caller *)

Init ==
    /\ args = <<>>
    /\ self = NoPanel
    /\ returned = [k \in Queries \cup {Constructor} |-> <<>>]

\* p = Panel(P1, P2, P3, P4)
Construct ==
    /\ args = <<>>
    /\ \E P1 \in Point, P2 \in Point, P3 \in Point, P4 \in Point :
          LET r == init(P1, P2, P3, P4)
          IN  /\ args' = <<P1, P2, P3, P4>>
              /\ self' = r.self
              /\ returned' = [returned EXCEPT ![Constructor] = <<r.out>>]

\* a query on the Panel the caller holds
Call(op, arg, r) ==
    /\ Len(returned[<<op, arg>>]) < MaxRepeat
    /\ self' = r.self
    /\ returned' = [returned EXCEPT ![<<op, arg>>] = Append(@, r.out)]
    /\ UNCHANGED args

Area ==
    /\ self # NoPanel
    /\ Call("area", <<>>, area(self))

Span ==
    /\ self # NoPanel
    /\ Call("span", <<>>, span(self))

ControlPoint ==
    /\ self # NoPanel
    /\ Call("control_point", <<>>, control_point(self))

InducedVelocity ==
    /\ self # NoPanel
    /\ \E q \in FieldPoint :
          Call("induced_velocity", q, induced_velocity(self, q))

Next ==
    \/ Construct
    \/ Area
    \/ Span
    \/ ControlPoint
    \/ InducedVelocity

Spec == Init /\ [][Next]_vars

----------------------------------------------------------------------------
(* The corners handed to the constructor, read off args, and the outcomes  *)
(* the caller has seen                                                      *)

Given == args # <<>>

X(i) == args[i][1]
Y(i) == args[i][2]

\* cross product of (P2 - P1) and (P4 - P3)
EdgeCross == (X(2) - X(1)) * (Y(4) - Y(3)) - (Y(2) - Y(1)) * (X(4) - X(3))

Magnitude(n) == IF n >= 0 THEN n ELSE 0 - n

\* |P3.y - P2.y| and |P4.y - P1.y|
SpanP2P3 == Magnitude(Y(3) - Y(2))
SpanP1P4 == Magnitude(Y(4) - Y(1))

\* shoelace formula on P1, P2, P3, P4 in that order, in halves
Shoelace ==
    Magnitude(  (X(1) * Y(2) - X(2) * Y(1)) + (X(2) * Y(3) - X(3) * Y(2))
              + (X(3) * Y(4) - X(4) * Y(3)) + (X(4) * Y(1) - X(1) * Y(4)))

GivenCorners == [P1 |-> args[1], P2 |-> args[2], P3 |-> args[3], P4 |-> args[4]]

ValidPanel == Given /\ EdgeCross = 0 /\ SpanP2P3 = SpanP1P4

UnitSquare == << <<1, 0>>, <<1, 1>>, <<0, 1>>, <<0, 0>> >>

\* the outcomes seen so far of one call
Seen(k) == {returned[k][i] : i \in 1..Len(returned[k])}

SeenOf(op) == Seen(<<op, <<>>>>)

Errors == UNION {{o \in Seen(k) : o.kind = "error"} :
                    k \in Queries \cup {Constructor}}

----------------------------------------------------------------------------
\* C1: Panel(P1, P2, P3, P4) raises ValueError "not parallel" and leaves the
\* caller without a Panel exactly when the cross product of P2 - P1 and
\* P4 - P3 is nonzero; with a zero cross product the constructor returns and
\* the caller holds a Panel with the given corners.
C1_ParallelCheck ==
    Given =>
        /\ EdgeCross # 0 =>
              /\ self = NoPanel
              /\ SeenOf("init") = {Raise("ValueError", NotParallel)}
        /\ EdgeCross = 0 =>
              /\ self = GivenCorners
              /\ SeenOf("init") = {Return(<<>>)}

C1_Witness ==
    /\ Given
    /\ EdgeCross # 0
    /\ \E o \in SeenOf("init") : o.kind = "error"

\* C2: corners with |P3.y - P2.y| # |P4.y - P1.y| are refused by the
\* constructor: the call raises and the caller holds no Panel.
C2_EqualSpanAtConstruction ==
    (Given /\ SpanP2P3 # SpanP1P4) =>
        /\ self = NoPanel
        /\ \A o \in SeenOf("init") : o.kind = "error"

\* C3: a query that returns a value was made on a Panel whose corners have
\* parallel edges P1P2, P3P4 and equal spans.
C3_NoResultFromInvalidPanel ==
    \A k \in Queries :
        \A o \in Seen(k) :
            o.kind = "value" => (EdgeCross = 0 /\ SpanP2P3 = SpanP1P4)

\* C4: every span() call raises ValueError "unequal span" exactly when the
\* |P3.y - P2.y| and |P4.y - P1.y| of the stored corners disagree, and
\* returns a value exactly when they agree.
C4_SpanRecheck ==
    \A o \in SeenOf("span") :
        /\ SpanP2P3 # SpanP1P4 => o = Raise("ValueError", UnequalSpan)
        /\ SpanP2P3 = SpanP1P4 => o.kind = "value"

C4_Witness ==
    /\ Len(returned[<<"span", <<>>>>]) = 2
    /\ returned[<<"span", <<>>>>][2].kind = "error"
    /\ SpanP2P3 # SpanP1P4

\* C5 as stated: on a valid Panel span() returns a strictly positive value
\* equal to |P3.y - P2.y| and to |P4.y - P1.y|.
C5_SpanPositive ==
    ValidPanel =>
        \A o \in SeenOf("span") :
            /\ o.kind = "value"
            /\ o.val[1] > 0
            /\ o.val[1] = SpanP2P3
            /\ o.val[1] = SpanP1P4

\* C5 amended: on a valid Panel span() returns a non-negative value equal to
\* |P3.y - P2.y| and to |P4.y - P1.y|; it is zero exactly when P3.y = P2.y.
C5_SpanNonNegative ==
    ValidPanel =>
        \A o \in SeenOf("span") :
            /\ o.kind = "value"
            /\ o.val[1] >= 0
            /\ o.val[1] = SpanP2P3
            /\ o.val[1] = SpanP1P4
            /\ o.val[1] = 0 <=> Y(3) = Y(2)

C5_Witness ==
    /\ ValidPanel
    /\ Y(3) < Y(2)
    /\ \E o \in SeenOf("span") : o.kind = "value"

\* C6 as stated: Panel((1,0), (1,1), (0,1), (0,0)) is constructed, area()
\* returns 1.0 (2 halves) and span() returns 1.0.
C6_UnitSquare ==
    args = UnitSquare =>
        /\ self = GivenCorners
        /\ SeenOf("area") \subseteq {Return(<<2>>)}
        /\ SeenOf("span") \subseteq {Return(<<1>>)}

\* C6 amended: Panel((1,0), (1,1), (0,1), (0,0)) is constructed, area()
\* returns 1.0 (2 halves) and span() returns 0.
C6_UnitSquareZeroSpan ==
    args = UnitSquare =>
        /\ self = GivenCorners
        /\ SeenOf("area") \subseteq {Return(<<2>>)}
        /\ SeenOf("span") \subseteq {Return(<<0>>)}

C6_Witness ==
    /\ args = UnitSquare
    /\ SeenOf("area") # {}
    /\ SeenOf("span") # {}

\* C7 as stated: on a valid Panel area() is strictly positive and equals the
\* shoelace area of P1, P2, P3, P4.
C7_AreaPositive ==
    ValidPanel =>
        \A o \in SeenOf("area") :
            /\ o.kind = "value"
            /\ o.val[1] > 0
            /\ o.val[1] = Shoelace

\* C7 amended: on a valid Panel area() is non-negative and equals the
\* shoelace area of P1, P2, P3, P4; it is zero for corners whose shoelace sum
\* vanishes (collinear or self-crossing corners).
C7_AreaShoelace ==
    ValidPanel =>
        \A o \in SeenOf("area") :
            /\ o.kind = "value"
            /\ o.val[1] >= 0
            /\ o.val[1] = Shoelace

C7_Witness ==
    /\ ValidPanel
    /\ Shoelace > 2
    /\ \E o \in SeenOf("area") : o.kind = "value"

\* C8: the message tells the cause.  "not parallel" is raised only by the
\* constructor and only for a nonzero edge cross product; "unequal span" is
\* raised only by span() and only for disagreeing spans; corners that break
\* both rules get "not parallel" from the constructor.
C8_CauseDistinguished ==
    Given =>
        /\ \A k \in Queries \cup {Constructor} :
              \A o \in Seen(k) :
                 /\ o.msg = NotParallel => (k = Constructor /\ EdgeCross # 0)
                 /\ o.msg = UnequalSpan =>
                       /\ k = <<"span", <<>>>>
                       /\ SpanP2P3 # SpanP1P4
                       /\ EdgeCross = 0
                 /\ (k = Constructor /\ o.kind = "error") =>
                       o.msg = NotParallel
                 /\ (k = <<"span", <<>>>> /\ o.kind = "error") =>
                       o.msg = UnequalSpan
        /\ (EdgeCross # 0 /\ SpanP2P3 # SpanP1P4) =>
              Errors = {Raise("ValueError", NotParallel)}

C8_Witness ==
    /\ Given
    /\ EdgeCross # 0
    /\ SpanP2P3 # SpanP1P4
    /\ Raise("ValueError", NotParallel) \in Errors

\* C9: queries leave the stored corners as given to the constructor, and all
\* outcomes observed for one query with one argument are the same, whatever
\* was called in between.
C9_ReadOnly ==
    /\ self # NoPanel => self = GivenCorners
    /\ \A k \in Queries :
          \A i \in 1..Len(returned[k]) : returned[k][i] = returned[k][1]

C9_Witness ==
    /\ self # NoPanel
    /\ \A k \in Queries : Len(returned[k]) = 2
    /\ returned[<<"span", <<>>>>][2].kind = "error"
    /\ returned[<<"area", <<>>>>][2].kind = "value"

\* smallest difference the checks are required to let pass, in grid steps
Tolerance == 2

\* C10: a nonzero edge cross product below the tolerance is accepted by the
\* constructor, and span() returns a value when the two spans differ by a
\* nonzero amount below the tolerance.
C10_ToleranceComparison ==
    Given =>
        /\ (EdgeCross # 0 /\ Magnitude(EdgeCross) < Tolerance) =>
              self = GivenCorners
        /\ (SpanP2P3 # SpanP1P4 /\ Magnitude(SpanP2P3 - SpanP1P4) < Tolerance)
              => \A o \in SeenOf("span") : o.kind = "value"

====
